---- MODULE Spec2Model ----
(***************************************************************************)
(* Practitioner availability calculator, conflict checker, timezone       *)
(* utilities and master scheduler.                                         *)
(*                                                                         *)
(* Instants are modelled as integers 0..MaxT (milliseconds since an       *)
(* origin); a timestamp string that `new Date(...)` parses is represented *)
(* by the integer it parses to.                                            *)
(***************************************************************************)
EXTENDS Integers, Sequences, FiniteSets, TLC

---------------------------------------------------------------------------
(* Bounds of the model *)

MaxT == 3
MaxRecords == 3
MaxUpstream == 2
MaxCheckT == 3
MaxSlots == 2
MaxCandidates == 2
MaxDays == 1
MaxSegments == 3
MaxAppointments == 3

Instants == 0..MaxT

---------------------------------------------------------------------------
(* Input records *)

\* start and end of a record: two instants in order, two equal instants, or
\* an end one unit before the start
InputPairs == {p \in Instants \X Instants : p[1] <= p[2] + 1}

\* availabilitySlots as built by parseAvailabilitySlots: k windows
\* (degenerate ones included), the i-th window at location i
WindowSeqs(k) ==
    { [i \in 1..k |-> [startDateTime |-> f[i][1], endDateTime |-> f[i][2],
                       locationId |-> i]] : f \in [1..k -> InputPairs] }

\* the schedule collection: k records of which only start and end are read
AppointmentSeqs(k) ==
    { [i \in 1..k |-> [start |-> f[i][1], end |-> f[i][2]]] :
        f \in [1..k -> InputPairs] }

---------------------------------------------------------------------------
(* Array.prototype.sort with a numeric comparator is stable: an element   *)
(* is placed after every element whose key is not greater than its own.   *)

\* elements are <<key, value>> pairs
RECURSIVE InsertByKey(_, _)
InsertByKey(sorted, x) ==
    IF sorted = <<>> THEN <<x>>
    ELSE IF x[1] < Head(sorted)[1]
         THEN <<x>> \o sorted
         ELSE <<Head(sorted)>> \o InsertByKey(Tail(sorted), x)

RECURSIVE StableSortPairs(_)
StableSortPairs(s) ==
    IF s = <<>> THEN <<>>
    ELSE InsertByKey(StableSortPairs(SubSeq(s, 1, Len(s) - 1)), s[Len(s)])

StableSort(s, Key(_)) ==
    LET sorted == StableSortPairs([i \in 1..Len(s) |-> <<Key(s[i]), s[i]>>])
    IN [i \in 1..Len(s) |-> sorted[i][2]]

StartOf(apt) == apt.start
StartDateTimeOf(slot) == slot.startDateTime

---------------------------------------------------------------------------
(* calculateFreeTimeSlots *)

\* the sum of f over the set S
RECURSIVE SumOver(_, _)
SumOver(S, f) ==
    IF S = {} THEN 0
    ELSE LET x == CHOOSE y \in S : TRUE IN f[x] + SumOver(S \ {x}, f)

Max(a, b) == IF a >= b THEN a ELSE b
Min(a, b) == IF a <= b THEN a ELSE b

BookedSlotsUnsorted(appts) ==
    [i \in 1..Len(appts) |-> [start |-> appts[i].start, end |-> appts[i].end]]

BookedSlots(appts) ==
    StableSort([i \in 1..Len(appts) |-> [start |-> appts[i].start, end |-> appts[i].end]],
               StartOf)

OverlapsAvailSlotNonStrict(apt, currentStart, slotEnd) ==
    apt.start <= slotEnd /\ apt.end >= currentStart

OverlapsAvailSlotAlways(apt, currentStart, slotEnd) == TRUE

OverlapsAvailSlot(apt, currentStart, slotEnd) ==
    apt.start < slotEnd /\ apt.end > currentStart

OverlappingAppointments(bookedSlots, currentStart, slotEnd) ==
    SelectSeq(bookedSlots, LAMBDA apt : OverlapsAvailSlot(apt, currentStart, slotEnd))

FreeSlot(s, e, loc) ==
    [startDateTime |-> s, endDateTime |-> e, duration |-> e - s, locationId |-> loc]

\* min in place of max: the cursor goes back to the end of a nested booking
AdvanceToMin(currentStart, appointment) == Min(currentStart, appointment.end)

AdvanceNoMax(currentStart, appointment) == appointment.end

Advance(currentStart, appointment) == Max(currentStart, appointment.end)

\* the loop over overlappingAppointments; yields <<slots pushed, currentStart>>
RECURSIVE ProcessAppointments(_, _, _, _)
ProcessAppointments(overlapping, currentStart, loc, pushed) ==
    IF overlapping = <<>> THEN <<pushed, currentStart>>
    ELSE LET appointment == Head(overlapping)
             pushed2 == IF currentStart < appointment.start
                        THEN Append(pushed, FreeSlot(currentStart, appointment.start, loc))
                        ELSE pushed
         IN ProcessAppointments(Tail(overlapping), Advance(currentStart, appointment),
                                loc, pushed2)

TrailingSlotFromWindowStart(currentStart, availSlot) ==
    [startDateTime |-> currentStart, endDateTime |-> availSlot.endDateTime,
     duration |-> availSlot.endDateTime - availSlot.startDateTime,
     locationId |-> availSlot.locationId]

\* the slot pushed after the last overlapping appointment
TrailingSlot(currentStart, availSlot) ==
    FreeSlot(currentStart, availSlot.endDateTime, availSlot.locationId)

\* one iteration of the loop over availabilitySlots: the slots it pushes
SlotsForWindow(availSlot, bookedSlots) ==
    LET currentStart == availSlot.startDateTime
        slotEnd == availSlot.endDateTime
        overlapping == OverlappingAppointments(bookedSlots, currentStart, slotEnd)
    IN IF Len(overlapping) = 0
       THEN <<FreeSlot(currentStart, slotEnd, availSlot.locationId)>>
       ELSE LET walked == ProcessAppointments(overlapping, currentStart,
                                              availSlot.locationId, <<>>)
            IN IF walked[2] < slotEnd
               THEN Append(walked[1], TrailingSlot(walked[2], availSlot))
               ELSE walked[1]

RECURSIVE PushedSlots(_, _)
PushedSlots(availSlots, bookedSlots) ==
    IF availSlots = <<>> THEN <<>>
    ELSE SlotsForWindow(Head(availSlots), bookedSlots)
         \o PushedSlots(Tail(availSlots), bookedSlots)

ReturnUnsorted(pushed) == pushed

ReturnSorted(pushed) == StableSort(pushed, StartDateTimeOf)

CalculateFreeTimeSlots(availSlots, appts) ==
    ReturnSorted(PushedSlots(availSlots, BookedSlots(appts)))

---------------------------------------------------------------------------
(* ConflictChecker *)

\* the time value of an Invalid Date
NaN == -1

\* new Date(ts).getTime(): the instant a well-formed timestamp denotes, NaN
\* for anything else
ParseDate(ts) == IF ts \in Nat THEN ts ELSE NaN

IsNaN(d) == d = NaN

\* relational operators on Dates: every comparison with NaN is false
DateLt(a, b) == ~IsNaN(a) /\ ~IsNaN(b) /\ a < b
DateLe(a, b) == ~IsNaN(a) /\ ~IsNaN(b) /\ a <= b
DateGt(a, b) == DateLt(b, a)
DateGe(a, b) == DateLe(b, a)

\* a locationId of 0 stands for an unset (falsy) locationId
Truthy(locationId) == locationId # 0

ProcessedFreeSlots(availability) ==
    [i \in 1..Len(availability.freeTimeSlots) |->
        [start |-> ParseDate(availability.freeTimeSlots[i].startDateTime),
         end |-> ParseDate(availability.freeTimeSlots[i].endDateTime),
         locationId |-> availability.freeTimeSlots[i].locationId,
         originalSlot |-> availability.freeTimeSlots[i]]]

\* <= and >= in place of < and >
HasTimeOverlapNonStrict(start1, end1, start2, end2) ==
    DateLe(start1, end2) /\ DateGe(end1, start2)

HasTimeOverlap(start1, end1, start2, end2) ==
    DateLt(start1, end2) /\ DateGt(end1, start2)

\* > and < in place of >= and <=
FitsStrictlyWithinSlot(appointmentStart, appointmentEnd, slot) ==
    DateGt(appointmentStart, slot.start) /\ DateLt(appointmentEnd, slot.end)

FitsWithinSlot(appointmentStart, appointmentEnd, slot) ==
    DateGe(appointmentStart, slot.start) /\ DateLe(appointmentEnd, slot.end)

\* the location test left out
LocationMismatchNever(appointment, slot) == FALSE

LocationMismatch(appointment, slot) ==
    /\ Truthy(appointment.locationId)
    /\ Truthy(slot.locationId)
    /\ appointment.locationId # slot.locationId

\* the overlap reported as the whole slot
PartialOverlapWholeSlot(appointmentStart, appointmentEnd, slot) ==
    [type |-> "partial_overlap",
     slotStart |-> slot.start,
     slotEnd |-> slot.end,
     overlapStart |-> slot.start,
     overlapEnd |-> slot.end]

PartialOverlap(appointmentStart, appointmentEnd, slot) ==
    [type |-> "partial_overlap",
     slotStart |-> slot.start,
     slotEnd |-> slot.end,
     overlapStart |-> Max(appointmentStart, slot.start),
     overlapEnd |-> Min(appointmentEnd, slot.end)]

\* a plain-string conflict detail
Reason(text) == [reason |-> text]

InvalidFormat == Reason("Invalid appointment start or end time format")
StartNotBeforeEnd == Reason("Appointment start time must be before end time")
NoSlotFound == Reason("No available time slot found for this appointment")

\* the loop over freeSlots and the statements after it
RECURSIVE ScanSlots(_, _, _, _, _)
ScanSlots(appointment, appointmentStart, appointmentEnd, slots, conflicts) ==
    IF slots = <<>>
    THEN [isValid |-> FALSE,
          conflicts |-> IF Len(conflicts) = 0 THEN <<NoSlotFound>> ELSE conflicts,
          matchedSlot |-> <<>>,
          timeWithinSlot |-> FALSE]
    ELSE LET slot == Head(slots)
         IN IF FitsWithinSlot(appointmentStart, appointmentEnd, slot)
            THEN IF LocationMismatch(appointment, slot)
                 THEN ScanSlots(appointment, appointmentStart, appointmentEnd,
                                Tail(slots), conflicts)
                 ELSE [isValid |-> TRUE,
                       conflicts |-> conflicts,
                       matchedSlot |-> <<slot.originalSlot>>,
                       timeWithinSlot |-> TRUE]
            ELSE ScanSlots(appointment, appointmentStart, appointmentEnd, Tail(slots),
                           IF HasTimeOverlap(appointmentStart, appointmentEnd,
                                             slot.start, slot.end)
                           THEN Append(conflicts,
                                       PartialOverlap(appointmentStart, appointmentEnd, slot))
                           ELSE conflicts)

\* the start >= end test left out
CheckSingleAppointmentNoOrderTest(appointment, slots) ==
    LET appointmentStart == ParseDate(appointment.start)
        appointmentEnd == ParseDate(appointment.end)
    IN IF IsNaN(appointmentStart) \/ IsNaN(appointmentEnd)
       THEN [isValid |-> FALSE, conflicts |-> <<InvalidFormat>>,
             matchedSlot |-> <<>>, timeWithinSlot |-> FALSE]
       ELSE ScanSlots(appointment, appointmentStart, appointmentEnd, slots, <<>>)

\* matchedSlot is <<>> for null and <<slot>> for a slot
CheckSingleAppointment(appointment, slots) ==
    LET appointmentStart == ParseDate(appointment.start)
        appointmentEnd == ParseDate(appointment.end)
    IN IF IsNaN(appointmentStart) \/ IsNaN(appointmentEnd)
       THEN [isValid |-> FALSE, conflicts |-> <<InvalidFormat>>,
             matchedSlot |-> <<>>, timeWithinSlot |-> FALSE]
       ELSE IF appointmentStart >= appointmentEnd
       THEN [isValid |-> FALSE, conflicts |-> <<StartNotBeforeEnd>>,
             matchedSlot |-> <<>>, timeWithinSlot |-> FALSE]
       ELSE ScanSlots(appointment, appointmentStart, appointmentEnd, slots, <<>>)

\* the details collected during the scan copied into the valid entry
ValidEntryWithConflicts(appointment, conflictCheck) ==
    [matchedSlot |-> conflictCheck.matchedSlot[1],
     timeWithinSlot |-> conflictCheck.timeWithinSlot,
     conflicts |-> conflictCheck.conflicts] @@ appointment

\* { ...appointment, matchedSlot, timeWithinSlot }
ValidEntry(appointment, conflictCheck) ==
    [matchedSlot |-> conflictCheck.matchedSlot[1],
     timeWithinSlot |-> conflictCheck.timeWithinSlot] @@ appointment

\* the entry built from the identifier alone, without the spread
ConflictedEntryOfServiceOnly(appointment, conflictCheck) ==
    [conflicts |-> conflictCheck.conflicts, service |-> appointment.service]

\* { ...appointment, conflicts }
ConflictedEntry(appointment, conflictCheck) ==
    [conflicts |-> conflictCheck.conflicts] @@ appointment

\* the loop left at the first candidate that is not valid
RECURSIVE ValidAppointmentsUntilInvalid(_, _)
ValidAppointmentsUntilInvalid(candidates, slots) ==
    IF candidates = <<>> THEN <<>>
    ELSE LET conflictCheck == CheckSingleAppointment(Head(candidates), slots)
         IN IF conflictCheck.isValid
            THEN <<ValidEntry(Head(candidates), conflictCheck)>>
                 \o ValidAppointmentsUntilInvalid(Tail(candidates), slots)
            ELSE <<>>

RECURSIVE ValidAppointments(_, _)
ValidAppointments(candidates, slots) ==
    IF candidates = <<>> THEN <<>>
    ELSE LET conflictCheck == CheckSingleAppointment(Head(candidates), slots)
         IN (IF conflictCheck.isValid
             THEN <<ValidEntry(Head(candidates), conflictCheck)>> ELSE <<>>)
            \o ValidAppointments(Tail(candidates), slots)

\* the push into conflictedAppointments without its `else`
RECURSIVE ConflictedAppointmentsOfAll(_, _)
ConflictedAppointmentsOfAll(candidates, slots) ==
    IF candidates = <<>> THEN <<>>
    ELSE <<ConflictedEntry(Head(candidates),
                           CheckSingleAppointment(Head(candidates), slots))>>
         \o ConflictedAppointmentsOfAll(Tail(candidates), slots)

RECURSIVE ConflictedAppointments(_, _)
ConflictedAppointments(candidates, slots) ==
    IF candidates = <<>> THEN <<>>
    ELSE LET conflictCheck == CheckSingleAppointment(Head(candidates), slots)
         IN (IF conflictCheck.isValid
             THEN <<>> ELSE <<ConflictedEntry(Head(candidates), conflictCheck)>>)
            \o ConflictedAppointments(Tail(candidates), slots)

\* The arguments are objects: `isNull` tells a null argument, `hasList` whether
\* the collection property (freeTimeSlots, suggestedAppointments) is present.
\* The value has `threw` set when the call ends in a TypeError.
CheckConflicts(availability, suggested) ==
    IF suggested.isNull
    THEN [threw |-> TRUE, validAppointments |-> <<>>, conflictedAppointments |-> <<>>,
          summary |-> [totalSuggested |-> 0, totalValid |-> 0, totalConflicted |-> 0,
                       validationErrors |-> <<>>]]
    ELSE LET totalSuggested ==
                 IF suggested.hasList THEN Len(suggested.suggestedAppointments) ELSE 0
             empty(errors) ==
                 [threw |-> FALSE, validAppointments |-> <<>>,
                  conflictedAppointments |-> <<>>,
                  summary |-> [totalSuggested |-> totalSuggested, totalValid |-> 0,
                               totalConflicted |-> 0, validationErrors |-> errors]]
         IN IF availability.isNull \/ ~availability.hasList
            THEN empty(<<"Invalid practitioner availability data structure">>)
            ELSE IF ~suggested.hasList
            THEN empty(<<"Invalid suggested appointments data structure">>)
            ELSE LET slots == ProcessedFreeSlots(availability)
                     valid == ValidAppointments(suggested.suggestedAppointments, slots)
                     conflicted ==
                         ConflictedAppointments(suggested.suggestedAppointments, slots)
                 IN [threw |-> FALSE,
                     validAppointments |-> valid,
                     conflictedAppointments |-> conflicted,
                     summary |-> [totalSuggested |-> totalSuggested,
                                  totalValid |-> Len(valid),
                                  totalConflicted |-> Len(conflicted),
                                  validationErrors |-> <<>>]]

NoConflictResults ==
    [threw |-> FALSE, validAppointments |-> <<>>, conflictedAppointments |-> <<>>,
     summary |-> [totalSuggested |-> 0, totalValid |-> 0, totalConflicted |-> 0,
                  validationErrors |-> <<>>]]

---------------------------------------------------------------------------
(* What a call leaves in the collections it was given *)

AppointmentsSortedInPlace(appts) == StableSort(appts, StartOf)

\* calculateFreeTimeSlots sorts the array that appointments.map() returned,
\* so the caller's array keeps its order
AppointmentsAfterCalculate(appts) == appts

\* checkConflicts reads freeTimeSlots through map() and copies every
\* candidate with a spread before annotating it
SuggestedAfterCheck(suggested) == suggested

---------------------------------------------------------------------------
(* Inputs of the checker *)

ValidPairs == {p \in Instants \X Instants : p[1] < p[2]}

\* k well-formed free slots, the i-th at location i
FreeTimeSlotSeqs(k) ==
    { [i \in 1..k |-> [startDateTime |-> f[i][1], endDateTime |-> f[i][2],
                       locationId |-> i]] : f \in [1..k -> ValidPairs] }

\* k well-formed candidates at location 1, the i-th identified by i
CandidateSeqs(k) ==
    { [i \in 1..k |-> [start |-> f[i][1], end |-> f[i][2],
                       locationId |-> 1, service |-> i]] : f \in [1..k -> ValidPairs] }

\* the members of WindowSeqs(k) whose windows all have start < end
ValidWindowSeqs(k) ==
    { [i \in 1..k |-> [startDateTime |-> f[i][1], endDateTime |-> f[i][2],
                       locationId |-> i]] : f \in [1..k -> ValidPairs] }

\* the members of AppointmentSeqs(k) whose records all have start < end
ValidAppointmentSeqs(k) ==
    { [i \in 1..k |-> [start |-> f[i][1], end |-> f[i][2]]] :
        f \in [1..k -> ValidPairs] }

\* instants of the checker's inputs
CheckInstants == 0..MaxCheckT

\* locationId 0 is an unset locationId
SlotLocations == {0, 1, 2}
CandidateLocations == {0, 1}

WellFormedIntervals == {p \in CheckInstants \X CheckInstants : p[1] < p[2]}
ZeroLengthIntervals == {<<t, t>> : t \in CheckInstants}

\* checkConflicts takes its free slots as they come: a slot of any location,
\* or a slot of zero length as calculateFreeTimeSlots emits for a
\* zero-length window (these at location 1)
SlotChoices ==
    (WellFormedIntervals \X SlotLocations) \cup (ZeroLengthIntervals \X {1})

\* a candidate's start and end: two instants in order, two equal instants,
\* two instants out of order, or a text that new Date() does not parse,
\* written NaN
CandidateTimes ==
    WellFormedIntervals
    \cup {<<1, 1>>, <<1, 0>>, <<NaN, 0>>, <<0, NaN>>, <<NaN, NaN>>}

AnySlotSeqs(k) ==
    { [i \in 1..k |-> [startDateTime |-> f[i][1][1], endDateTime |-> f[i][1][2],
                       locationId |-> f[i][2]]] :
        f \in [1..k -> SlotChoices] }

\* k candidates, the i-th identified by i
AnyCandidateSeqs(k) ==
    { [i \in 1..k |-> [start |-> f[i][1][1], end |-> f[i][1][2],
                       locationId |-> f[i][2], service |-> i]] :
        f \in [1..k -> CandidateTimes \X CandidateLocations] }

\* k candidates at location 1, the i-th identified by i
ListCandidateSeqs(k) ==
    { [i \in 1..k |-> [start |-> f[i][1], end |-> f[i][2],
                       locationId |-> 1, service |-> i]] :
        f \in [1..k -> CandidateTimes] }

\* null passed for an argument, and an object without the collection
NullArgument == [isNull |-> TRUE, hasList |-> FALSE]
ObjectWithoutList == [isNull |-> FALSE, hasList |-> FALSE]

AvailabilityObject(slots) == [isNull |-> FALSE, hasList |-> TRUE, freeTimeSlots |-> slots]

SuggestedObject(candidates) ==
    [isNull |-> FALSE, hasList |-> TRUE, suggestedAppointments |-> candidates]

---------------------------------------------------------------------------
(* calculateAvailability *)

Requests == {"practitioner", "schedule", "availability"}

\* What response.json() yielded.  A body is null, an object or an array.
NullBody == [kind |-> "null"]

\* a practitioner record; "" stands for a property that is absent
PractitionerBodies ==
    {NullBody,
     [kind |-> "object", timezone |-> "", timeZone |-> ""],
     [kind |-> "object", timezone |-> "Australia/Perth", timeZone |-> ""],
     [kind |-> "object", timezone |-> "", timeZone |-> "Australia/Perth"]}

\* get_appointments answers with an array of appointments
ScheduleBodies(n) ==
    {NullBody, [kind |-> "object"]}
    \cup {[kind |-> "array", items |-> a] :
            a \in UNION {ValidAppointmentSeqs(k) : k \in 0..n}}

\* get_practitioner_availabilities answers with an object holding `data`
AvailabilityBodies(n) ==
    {NullBody, [kind |-> "object", hasData |-> FALSE]}
    \cup {[kind |-> "object", hasData |-> TRUE, data |-> w] :
            w \in UNION {ValidWindowSeqs(k) : k \in 0..n}}

\* number of records a fetched result carries
RecordsIn(result) ==
    IF result.status # "success" THEN 0
    ELSE IF result.data.kind = "array" THEN Len(result.data.items)
    ELSE IF result.data.kind = "object" /\ "data" \in DOMAIN result.data
         THEN Len(result.data.data)
    ELSE 0

Bodies(r, n) ==
    IF r = "practitioner" THEN PractitionerBodies
    ELSE IF r = "schedule" THEN ScheduleBodies(n)
    ELSE AvailabilityBodies(n)

\* the fetchers catch every failure and resolve to { status: 'error' }
\* and leave `data` undefined then
Unsent == [status |-> "unsent", error_message |-> "", data |-> NullBody]
Pending == [status |-> "pending", error_message |-> "", data |-> NullBody]
ErrorResult(message) == [status |-> "error", error_message |-> message, data |-> NullBody]
SuccessResult(body) == [status |-> "success", error_message |-> "", data |-> body]

ParseAvailabilitySlots(availabilityData) ==
    StableSort([i \in 1..Len(availabilityData.data) |->
                   [locationId |-> availabilityData.data[i].locationId,
                    startDateTime |-> ParseDate(availabilityData.data[i].startDateTime),
                    endDateTime |-> ParseDate(availabilityData.data[i].endDateTime),
                    duration |-> ParseDate(availabilityData.data[i].endDateTime)
                                 - ParseDate(availabilityData.data[i].startDateTime)]],
               StartDateTimeOf)

FirstUpstreamErrorSkippingSchedule(results) ==
    IF results["practitioner"].status = "error" THEN "practitioner"
    ELSE IF results["availability"].status = "error" THEN "availability"
    ELSE "none"

\* the three status checks after Promise.all, in their order
FirstUpstreamError(results) ==
    IF results["practitioner"].status = "error" THEN "practitioner"
    ELSE IF results["schedule"].status = "error" THEN "schedule"
    ELSE IF results["availability"].status = "error" THEN "availability"
    ELSE "none"

\* scheduleResult.data || []
AppointmentsPassed(scheduleData) ==
    IF scheduleData.kind = "null" THEN <<>> ELSE scheduleData

\* one minute in milliseconds: 1000 * 60
MsPerMinute == 60000

FormatSlot(slot) ==
    [startDateTime |-> slot.startDateTime,
     endDateTime |-> slot.endDateTime,
     duration |-> slot.duration \div MsPerMinute,
     durationMs |-> slot.duration,
     locationId |-> slot.locationId]

\* the zone the core falls back to
DefaultTimezone == "Australia/Melbourne"

\* practitioner.timezone || practitioner.timeZone || 'Australia/Melbourne'
PractitionerTimezone(practitioner) ==
    IF practitioner.timezone # "" THEN practitioner.timezone
    ELSE IF practitioner.timeZone # "" THEN practitioner.timeZone
    ELSE DefaultTimezone

\* scheduleResult.data?.length || 0
TotalAppointments(scheduleData) ==
    IF scheduleData.kind = "array" THEN Len(scheduleData.items) ELSE 0

\* A number of minutes is the fraction num / den.
Minutes(num, den) == [num |-> num, den |-> den]

\* sum + slot.duration / (1000 * 60), over the common denominator; the
\* denominator of sum divides MsPerMinute
AddMinutes(sum, duration) ==
    Minutes(sum.num * (MsPerMinute \div sum.den) + duration, MsPerMinute)

\* sum + Math.floor(slot.duration / (1000 * 60))
AddWholeMinutes(sum, duration) ==
    Minutes(sum.num + (duration \div MsPerMinute) * sum.den, sum.den)

RECURSIVE TotalFreeMinutesFloored(_, _)
TotalFreeMinutesFloored(free, sum) ==
    IF free = <<>> THEN sum
    ELSE TotalFreeMinutesFloored(Tail(free),
                            AddWholeMinutes(sum, Head(free).duration))

\* freeTimeSlots.reduce((sum, slot) => sum + slot.duration / (1000 * 60), 0)
RECURSIVE TotalFreeMinutes(_, _)
TotalFreeMinutes(free, sum) ==
    IF free = <<>> THEN sum
    ELSE TotalFreeMinutes(Tail(free), AddMinutes(sum, Head(free).duration))

Rejection(message) ==
    [threw |-> TRUE, error |-> message, ranCalculator |-> FALSE,
     parsed |-> <<>>, passed |-> <<>>, free |-> <<>>, output |-> <<>>]

\* What calculateAvailability does once Promise.all has resolved.
\* output is <<>> when it throws and <<result>> when it returns.
Continuation(results) ==
    LET failed == FirstUpstreamError(results)
        practitioner == results["practitioner"].data
        scheduleData == results["schedule"].data
        availabilityData == results["availability"].data
    IN IF failed # "none" THEN Rejection(results[failed].error_message)
       ELSE IF practitioner.kind = "null" THEN Rejection("TypeError")
       ELSE IF availabilityData.kind = "null" THEN Rejection("TypeError")
       ELSE IF ~availabilityData.hasData THEN Rejection("TypeError")
       ELSE LET availSlots == ParseAvailabilitySlots(availabilityData)
                passed == AppointmentsPassed(scheduleData)
            IN IF passed # <<>> /\ passed.kind = "object" THEN Rejection("TypeError")
               ELSE LET appts == IF passed = <<>> THEN <<>> ELSE passed.items
                        free == CalculateFreeTimeSlots(availSlots, appts)
                    IN [threw |-> FALSE, error |-> "", ranCalculator |-> TRUE,
                        parsed |-> availSlots, passed |-> appts, free |-> free,
                        output |->
                          <<[practitionerTimezone |-> PractitionerTimezone(practitioner),
                             summary |->
                                [totalAvailabilityPeriods |-> Len(availSlots),
                                 totalAppointments |-> TotalAppointments(scheduleData),
                                 totalFreeSlots |-> Len(free),
                                 totalFreeMinutes |->
                                    TotalFreeMinutes(free, Minutes(0, 1))],
                             freeTimeSlots |-> [i \in DOMAIN free |-> FormatSlot(free[i])]]>>]

---------------------------------------------------------------------------
(* Timezone utilities.  An instant is a number of minutes since midnight   *)
(* UTC of the first day; a timezone identifier is the sequence of its      *)
(* '/'-separated segments.                                                 *)

MinutesPerHour == 60
HoursPerDay == 24

Days == 0..(MaxDays - 1)
MinuteMarks == {0, 29, 30, 59}

ClockInstants ==
    {(d * HoursPerDay + h) * MinutesPerHour + m :
        d \in Days, h \in 0..(HoursPerDay - 1), m \in MinuteMarks}

\* the zones of the time-of-day calls and their offsets from UTC in minutes
UtcOffsetMinutes ==
    [z \in {"UTC", "Australia/Perth", "Australia/Darwin", "Australia/Melbourne"} |->
        CASE z = "UTC" -> 0
          [] z = "Australia/Perth" -> 480
          [] z = "Australia/Darwin" -> 570
          [] z = "Australia/Melbourne" -> 600]

ClockZones == DOMAIN UtcOffsetMinutes

\* getHours(toZonedTime(utcDate, timezone)): the hour of the wall clock
LocalHour(utcDate, timezone) ==
    ((utcDate + UtcOffsetMinutes[timezone]) \div MinutesPerHour) % HoursPerDay

NoonHour == 12
EveningHour == 17

GetTimePeriod(hour) ==
    IF hour < NoonHour THEN "morning"
    ELSE IF hour < EveningHour THEN "afternoon"
    ELSE "evening"

\* Array.prototype.join
RECURSIVE Join(_, _)
Join(parts, separator) ==
    IF parts = <<>> THEN ""
    ELSE IF Len(parts) = 1 THEN parts[1]
    ELSE parts[1] \o separator \o Join(Tail(parts), separator)

\* the cross-day test left out
GetTimeOfDayRangeNoCrossDay(startUTC, endUTC, timezone) ==
    LET startHour == LocalHour(startUTC, timezone)
        endHour == LocalHour(endUTC, timezone)
        startPeriod == GetTimePeriod(startHour)
        endPeriod == GetTimePeriod(endHour)
        periods ==
            (IF startHour < NoonHour /\ endHour >= NoonHour THEN <<"morning">> ELSE <<>>)
            \o (IF startHour < EveningHour /\ endHour >= NoonHour
                THEN <<"afternoon">> ELSE <<>>)
            \o (IF endHour >= EveningHour THEN <<"evening">> ELSE <<>>)
    IN IF startPeriod = endPeriod THEN startPeriod
       ELSE Join(periods, "-")

\* the evening period pushed only when the end hour is after 17
GetTimeOfDayRangeEveningAfter17(startUTC, endUTC, timezone) ==
    LET startHour == LocalHour(startUTC, timezone)
        endHour == LocalHour(endUTC, timezone)
        startPeriod == GetTimePeriod(startHour)
        endPeriod == GetTimePeriod(endHour)
        periods ==
            (IF startHour < NoonHour /\ endHour >= NoonHour THEN <<"morning">> ELSE <<>>)
            \o (IF startHour < EveningHour /\ endHour >= NoonHour
                THEN <<"afternoon">> ELSE <<>>)
            \o (IF endHour > EveningHour THEN <<"evening">> ELSE <<>>)
    IN IF startPeriod = endPeriod THEN startPeriod
       ELSE IF endHour < startHour THEN startPeriod
       ELSE Join(periods, "-")

GetTimeOfDayRange(startUTC, endUTC, timezone) ==
    LET startHour == LocalHour(startUTC, timezone)
        endHour == LocalHour(endUTC, timezone)
        startPeriod == GetTimePeriod(startHour)
        endPeriod == GetTimePeriod(endHour)
        periods ==
            (IF startHour < NoonHour /\ endHour >= NoonHour THEN <<"morning">> ELSE <<>>)
            \o (IF startHour < EveningHour /\ endHour >= NoonHour
                THEN <<"afternoon">> ELSE <<>>)
            \o (IF endHour >= EveningHour THEN <<"evening">> ELSE <<>>)
    IN IF startPeriod = endPeriod THEN startPeriod
       ELSE IF endHour < startHour THEN startPeriod
       ELSE Join(periods, "-")

\* noon counted as morning
GetTimeOfDayNoonIsMorning(utcDate, timezone) ==
    LET localHour == LocalHour(utcDate, timezone)
    IN IF localHour <= NoonHour THEN "morning"
       ELSE IF localHour < EveningHour THEN "afternoon"
       ELSE "evening"

GetTimeOfDay(utcDate, timezone) ==
    LET localHour == LocalHour(utcDate, timezone)
    IN IF localHour < NoonHour THEN "morning"
       ELSE IF localHour < EveningHour THEN "afternoon"
       ELSE "evening"

\* timezoneMap of getTimezoneAbbr
TimezoneMap ==
    [z \in {"Australia/Melbourne", "Australia/Sydney", "Australia/Hobart",
            "Australia/ACT", "Australia/Canberra", "Australia/Currie",
            "Australia/NSW", "Australia/Tasmania", "Australia/Victoria",
            "Australia/Brisbane", "Australia/Lindeman", "Australia/Queensland",
            "Australia/Adelaide", "Australia/Broken_Hill", "Australia/South",
            "Australia/Yancowinna", "Australia/Darwin", "Australia/North",
            "Australia/Perth", "Australia/West", "Australia/Eucla",
            "Australia/Lord_Howe", "Australia/LHI"} |->
        CASE z \in {"Australia/Melbourne", "Australia/Sydney", "Australia/Hobart",
                    "Australia/ACT", "Australia/Canberra", "Australia/Currie",
                    "Australia/NSW", "Australia/Tasmania", "Australia/Victoria"}
                -> "AEST/AEDT"
          [] z \in {"Australia/Brisbane", "Australia/Lindeman", "Australia/Queensland"}
                -> "AEST"
          [] z \in {"Australia/Adelaide", "Australia/Broken_Hill", "Australia/South",
                    "Australia/Yancowinna"}
                -> "ACST/ACDT"
          [] z \in {"Australia/Darwin", "Australia/North"} -> "ACST"
          [] z \in {"Australia/Perth", "Australia/West"} -> "AWST"
          [] z = "Australia/Eucla" -> "ACWST"
          [] z \in {"Australia/Lord_Howe", "Australia/LHI"} -> "LHST/LHDT"]

\* the values passed for `timezone`: null, undefined, or a string given by
\* its segments ('' is the one empty segment)
NullTimezone == [kind |-> "null", segments |-> <<>>]
UndefinedTimezone == [kind |-> "undefined", segments |-> <<>>]
StringTimezone(segments) == [kind |-> "string", segments |-> segments]

SegmentNames ==
    {"", "Australia", "America", "Argentina", "Melbourne", "Perth", "Buenos_Aires"}

TextOf(timezone) == Join(timezone.segments, "/")

\* a value that `!timezone` lets through
IsTruthyTimezone(timezone) == timezone.kind = "string" /\ TextOf(timezone) # ""

GetTimezoneAbbr(timezone) ==
    IF ~IsTruthyTimezone(timezone) THEN ""
    ELSE IF TextOf(timezone) \in DOMAIN TimezoneMap THEN TimezoneMap[TextOf(timezone)]
    ELSE IF Len(timezone.segments) >= 2 /\ timezone.segments[2] # ""
    THEN timezone.segments[2]
    ELSE TextOf(timezone)

\* no call of a timezone utility
NoUtilCall == [fn |-> "none", returned |-> FALSE, result |-> ""]

---------------------------------------------------------------------------
(* MasterScheduler.scheduleAppointments.  The log lists, in the order they *)
(* happen, the calls the method makes and the outcomes it receives.        *)

Event(name, index) == [event |-> name, index |-> index]

\* the async function mapped over sdmData.appointments: one task each
UnstartedTasks(n) == [i \in 1..n |-> "unstarted"]

\* every suggestAppointments call is issued inside the map
StartedTasks(tasks) == [i \in DOMAIN tasks |-> "suggesting"]

SuggestCalls(tasks) == [i \in DOMAIN tasks |-> Event("suggest:call", i)]

\* what suggestAppointments resolves to: an object, with or without the list
SuggestionObjects == {SuggestedObject(<<>>), ObjectWithoutList}

\* Promise.allSettled in place of Promise.all
AllSettled(tasks) ==
    \A i \in DOMAIN tasks : tasks[i] \in {"fulfilled", "rejected"}

\* Promise.all resolves when every task has
AllFulfilled(tasks) == \A i \in DOMAIN tasks : tasks[i] = "fulfilled"

\* Promise.all rejects as soon as one task has
SomeRejected(tasks) == \E i \in DOMAIN tasks : tasks[i] = "rejected"

---------------------------------------------------------------------------
(* State *)

VARIABLES
    availabilitySlots,         \* the availability windows given to the calculator
    appointments,              \* the booking collection given to the calculator
    calcReturned,              \* calculateFreeTimeSlots has returned
    freeSlots,                 \* the value it returned last
    practitionerAvailability,  \* first argument of checkConflicts
    suggestedAppointments,     \* second argument of checkConflicts
    checkReturned,             \* checkConflicts has returned
    conflictResults,           \* the value it returned last
    pc,                        \* where calculateAvailability stands
    requests,                  \* the three upstream requests and their results
    availabilityOutput,        \* <<>>, or <<the object calculateAvailability returned>>
    thrown,                    \* message of the error calculateAvailability threw
    utilCall,                  \* a call of a timezone utility: arguments and result
    schedPc,                   \* where scheduleAppointments stands
    appointmentTasks,          \* the state of each appointment's task
    schedLog                   \* the calls made and outcomes received, in order

vars == <<availabilitySlots, appointments, calcReturned, freeSlots,
          practitionerAvailability, suggestedAppointments, checkReturned,
          conflictResults, pc, requests, availabilityOutput, thrown, utilCall,
          schedPc, appointmentTasks, schedLog>>

calcVars == <<availabilitySlots, appointments, calcReturned, freeSlots>>
checkVars == <<practitionerAvailability, suggestedAppointments, checkReturned,
               conflictResults>>
availVars == <<pc, requests, availabilityOutput, thrown>>
schedVars == <<schedPc, appointmentTasks, schedLog>>
otherVars == <<utilCall, schedVars>>

CallCalculateFreeTimeSlots ==
    /\ freeSlots' = CalculateFreeTimeSlots(availabilitySlots, appointments)
    /\ appointments' = AppointmentsAfterCalculate(appointments)
    /\ calcReturned' = TRUE
    /\ UNCHANGED availabilitySlots
    /\ UNCHANGED <<checkVars, availVars>>
    /\ UNCHANGED otherVars

CallCheckConflicts ==
    /\ conflictResults' = CheckConflicts(practitionerAvailability, suggestedAppointments)
    /\ suggestedAppointments' = SuggestedAfterCheck(suggestedAppointments)
    /\ checkReturned' = TRUE
    /\ UNCHANGED practitionerAvailability
    /\ UNCHANGED <<calcVars, availVars>>
    /\ UNCHANGED otherVars

(* The calculator alone, on every list of windows and bookings *)

Init ==
    /\ \E w \in 0..MaxRecords, b \in 0..MaxRecords :
          /\ w + b <= MaxRecords
          /\ availabilitySlots \in WindowSeqs(w)
          /\ appointments \in AppointmentSeqs(b)
    /\ calcReturned = FALSE
    /\ freeSlots = <<>>
    /\ practitionerAvailability = AvailabilityObject(<<>>)
    /\ suggestedAppointments = SuggestedObject(<<>>)
    /\ checkReturned = FALSE
    /\ conflictResults = NoConflictResults
    /\ pc = "idle"
    /\ requests = [r \in Requests |-> Unsent]
    /\ availabilityOutput = <<>>
    /\ thrown = ""
    /\ utilCall = NoUtilCall
    /\ schedPc = "idle"
    /\ appointmentTasks = <<>>
    /\ schedLog = <<>>

Next == CallCalculateFreeTimeSlots

Spec == Init /\ [][Next]_vars

(* Calculator and checker called any number of times, in any order *)

InitPure ==
    /\ \E w \in 0..MaxRecords, b \in 0..MaxRecords,
          s \in 0..MaxRecords, c \in 0..MaxRecords :
          /\ w + b + s + c <= MaxRecords
          /\ availabilitySlots \in ValidWindowSeqs(w)
          /\ appointments \in ValidAppointmentSeqs(b)
          /\ practitionerAvailability \in {AvailabilityObject(x) : x \in FreeTimeSlotSeqs(s)}
          /\ suggestedAppointments \in {SuggestedObject(x) : x \in CandidateSeqs(c)}
    /\ calcReturned = FALSE
    /\ freeSlots = <<>>
    /\ checkReturned = FALSE
    /\ conflictResults = NoConflictResults
    /\ pc = "idle"
    /\ requests = [r \in Requests |-> Unsent]
    /\ availabilityOutput = <<>>
    /\ thrown = ""
    /\ utilCall = NoUtilCall
    /\ schedPc = "idle"
    /\ appointmentTasks = <<>>
    /\ schedLog = <<>>

NextPure == CallCalculateFreeTimeSlots \/ CallCheckConflicts

SpecPure == InitPure /\ [][NextPure]_vars

(* checkConflicts on one candidate and any list of free slots *)

InitSingle ==
    /\ availabilitySlots = <<>>
    /\ appointments = <<>>
    /\ calcReturned = FALSE
    /\ freeSlots = <<>>
    /\ \E s \in 0..MaxSlots :
          practitionerAvailability \in {AvailabilityObject(x) : x \in AnySlotSeqs(s)}
    /\ suggestedAppointments \in {SuggestedObject(x) : x \in AnyCandidateSeqs(1)}
    /\ checkReturned = FALSE
    /\ conflictResults = NoConflictResults
    /\ pc = "idle"
    /\ requests = [r \in Requests |-> Unsent]
    /\ availabilityOutput = <<>>
    /\ thrown = ""
    /\ utilCall = NoUtilCall
    /\ schedPc = "idle"
    /\ appointmentTasks = <<>>
    /\ schedLog = <<>>

NextSingle == CallCheckConflicts

SpecSingle == InitSingle /\ [][NextSingle]_vars

(* checkConflicts on lists of candidates and on arguments that lack a list *)

AvailabilityArguments(s) ==
    {AvailabilityObject(x) : x \in FreeTimeSlotSeqs(s)}
    \cup (IF s = 0 THEN {NullArgument, ObjectWithoutList} ELSE {})

SuggestedArguments(c) ==
    {SuggestedObject(x) : x \in ListCandidateSeqs(c)}
    \cup (IF c = 0 THEN {NullArgument, ObjectWithoutList} ELSE {})

InitMany ==
    /\ availabilitySlots = <<>>
    /\ appointments = <<>>
    /\ calcReturned = FALSE
    /\ freeSlots = <<>>
    /\ \E s \in 0..MaxRecords, c \in 0..MaxCandidates :
          /\ s + c <= MaxRecords
          /\ practitionerAvailability \in AvailabilityArguments(s)
          /\ suggestedAppointments \in SuggestedArguments(c)
    /\ checkReturned = FALSE
    /\ conflictResults = NoConflictResults
    /\ pc = "idle"
    /\ requests = [r \in Requests |-> Unsent]
    /\ availabilityOutput = <<>>
    /\ thrown = ""
    /\ utilCall = NoUtilCall
    /\ schedPc = "idle"
    /\ appointmentTasks = <<>>
    /\ schedLog = <<>>

NextMany == CallCheckConflicts

SpecMany == InitMany /\ [][NextMany]_vars

(* calculateAvailability: three concurrent requests, then the computation *)

InitAvail ==
    /\ availabilitySlots = <<>>
    /\ appointments = <<>>
    /\ calcReturned = FALSE
    /\ freeSlots = <<>>
    /\ practitionerAvailability = AvailabilityObject(<<>>)
    /\ suggestedAppointments = SuggestedObject(<<>>)
    /\ checkReturned = FALSE
    /\ conflictResults = NoConflictResults
    /\ pc = "idle"
    /\ requests = [r \in Requests |-> Unsent]
    /\ availabilityOutput = <<>>
    /\ thrown = ""
    /\ utilCall = NoUtilCall
    /\ schedPc = "idle"
    /\ appointmentTasks = <<>>
    /\ schedLog = <<>>

\* the call: the three fetchers start inside the Promise.all argument
CallCalculateAvailability ==
    /\ pc = "idle"
    /\ requests' = [r \in Requests |-> Pending]
    /\ pc' = "awaiting"
    /\ UNCHANGED <<calcVars, checkVars, availabilityOutput, thrown>>
    /\ UNCHANGED otherVars

\* the records the other requests have delivered so far
RecordsDelivered(r) ==
    SumOver(Requests \ {r}, [q \in Requests |-> RecordsIn(requests[q])])

\* a request ends with status 200 and a JSON body
Respond200(r) ==
    /\ pc = "awaiting"
    /\ requests[r].status = "pending"
    /\ \E body \in Bodies(r, MaxUpstream - RecordsDelivered(r)) :
          requests' = [requests EXCEPT ![r] = SuccessResult(body)]
    /\ UNCHANGED <<calcVars, checkVars, pc, availabilityOutput, thrown>>
    /\ UNCHANGED otherVars

\* a request ends with another status
RespondNon200(r) ==
    /\ pc = "awaiting"
    /\ requests[r].status = "pending"
    /\ requests' = [requests EXCEPT ![r] = ErrorResult("Failed to retrieve")]
    /\ UNCHANGED <<calcVars, checkVars, pc, availabilityOutput, thrown>>
    /\ UNCHANGED otherVars

\* fetch rejects, or the body is no JSON
NetworkError(r) ==
    /\ pc = "awaiting"
    /\ requests[r].status = "pending"
    /\ requests' = [requests EXCEPT ![r] = ErrorResult("Network error")]
    /\ UNCHANGED <<calcVars, checkVars, pc, availabilityOutput, thrown>>
    /\ UNCHANGED otherVars

\* Promise.all resolves when the three fetchers have: the rest of
\* calculateAvailability runs
Resume ==
    /\ pc = "awaiting"
    /\ \A r \in Requests : requests[r].status \in {"success", "error"}
    /\ \E done \in {Continuation(requests)} :
          /\ pc' = IF done.threw THEN "rejected" ELSE "resolved"
          /\ availabilityOutput' = done.output
          /\ thrown' = done.error
          /\ calcReturned' = done.ranCalculator
          /\ availabilitySlots' = done.parsed
          /\ appointments' = done.passed
          /\ freeSlots' = done.free
    /\ UNCHANGED <<checkVars, requests>>
    /\ UNCHANGED otherVars

NextAvail ==
    \/ CallCalculateAvailability
    \/ \E r \in Requests : Respond200(r)
    \/ \E r \in Requests : RespondNon200(r)
    \/ \E r \in Requests : NetworkError(r)
    \/ Resume

SpecAvail == InitAvail /\ [][NextAvail]_vars

(* The timezone utilities, each called once on every argument *)

\* the arguments of a call, before it returns
TimeOfDayCall(utcDate, timezone) ==
    [fn |-> "getTimeOfDay", utcDate |-> utcDate, timezone |-> timezone,
     returned |-> FALSE, result |-> ""]

RangeCall(startUTC, endUTC, timezone) ==
    [fn |-> "getTimeOfDayRange", startUTC |-> startUTC, endUTC |-> endUTC,
     timezone |-> timezone, returned |-> FALSE, result |-> ""]

AbbrCall(timezone) ==
    [fn |-> "getTimezoneAbbr", timezone |-> timezone,
     returned |-> FALSE, result |-> ""]

InitTime ==
    /\ availabilitySlots = <<>>
    /\ appointments = <<>>
    /\ calcReturned = FALSE
    /\ freeSlots = <<>>
    /\ practitionerAvailability = AvailabilityObject(<<>>)
    /\ suggestedAppointments = SuggestedObject(<<>>)
    /\ checkReturned = FALSE
    /\ conflictResults = NoConflictResults
    /\ pc = "idle"
    /\ requests = [r \in Requests |-> Unsent]
    /\ availabilityOutput = <<>>
    /\ thrown = ""
    /\ \/ \E t \in ClockInstants, z \in ClockZones : utilCall = TimeOfDayCall(t, z)
       \/ \E t \in ClockInstants, e \in ClockInstants, z \in ClockZones :
             utilCall = RangeCall(t, e, z)
       \/ \E n \in 1..MaxSegments :
             \E segments \in [1..n -> SegmentNames] :
                utilCall = AbbrCall(StringTimezone(segments))
       \/ utilCall \in {AbbrCall(NullTimezone), AbbrCall(UndefinedTimezone)}
    /\ schedPc = "idle"
    /\ appointmentTasks = <<>>
    /\ schedLog = <<>>

CallGetTimeOfDay ==
    /\ utilCall.fn = "getTimeOfDay"
    /\ ~utilCall.returned
    /\ utilCall' = [utilCall EXCEPT
                      !.returned = TRUE,
                      !.result = GetTimeOfDay(utilCall.utcDate, utilCall.timezone)]
    /\ UNCHANGED <<calcVars, checkVars, availVars, schedVars>>

CallGetTimeOfDayRange ==
    /\ utilCall.fn = "getTimeOfDayRange"
    /\ ~utilCall.returned
    /\ utilCall' = [utilCall EXCEPT
                      !.returned = TRUE,
                      !.result = GetTimeOfDayRange(utilCall.startUTC, utilCall.endUTC,
                                                   utilCall.timezone)]
    /\ UNCHANGED <<calcVars, checkVars, availVars, schedVars>>

CallGetTimezoneAbbr ==
    /\ utilCall.fn = "getTimezoneAbbr"
    /\ ~utilCall.returned
    /\ utilCall' = [utilCall EXCEPT
                      !.returned = TRUE,
                      !.result = GetTimezoneAbbr(utilCall.timezone)]
    /\ UNCHANGED <<calcVars, checkVars, availVars, schedVars>>

NextTime == CallGetTimeOfDay \/ CallGetTimeOfDayRange \/ CallGetTimezoneAbbr

SpecTime == InitTime /\ [][NextTime]_vars

(* scheduleAppointments called once: extraction, availability, one task per *)
(* appointment, selection                                                    *)

InitSched ==
    /\ availabilitySlots = <<>>
    /\ appointments = <<>>
    /\ calcReturned = FALSE
    /\ freeSlots = <<>>
    /\ practitionerAvailability = AvailabilityObject(<<>>)
    /\ suggestedAppointments = SuggestedObject(<<>>)
    /\ checkReturned = FALSE
    /\ conflictResults = NoConflictResults
    /\ pc = "idle"
    /\ requests = [r \in Requests |-> Unsent]
    /\ availabilityOutput = <<>>
    /\ thrown = ""
    /\ utilCall = NoUtilCall
    /\ schedPc = "idle"
    /\ appointmentTasks = <<>>
    /\ schedLog = <<>>

notSchedVars == <<calcVars, checkVars, availVars, utilCall>>

\* the call: convertSDMToStructured is awaited
CallScheduleAppointments ==
    /\ schedPc = "idle"
    /\ schedPc' = "extracting"
    /\ schedLog' = Append(schedLog, Event("extract:call", 0))
    /\ UNCHANGED <<appointmentTasks, notSchedVars>>

\* extraction resolves with n appointments: the date range is computed and
\* calculateAvailability is awaited
ExtractionResolves ==
    /\ schedPc = "extracting"
    /\ \E n \in 0..MaxAppointments : appointmentTasks' = UnstartedTasks(n)
    /\ schedPc' = "availability"
    /\ schedLog' = schedLog \o <<Event("extract:ok", 0), Event("availability:call", 0)>>
    /\ UNCHANGED notSchedVars

\* extraction rejects: the catch block rethrows
ExtractionRejects ==
    /\ schedPc = "extracting"
    /\ schedPc' = "rejected"
    /\ schedLog' = schedLog \o <<Event("extract:fail", 0), Event("reject", 0)>>
    /\ UNCHANGED <<appointmentTasks, notSchedVars>>

\* availability resolves: the map starts every task, each runs up to its
\* await of suggestAppointments, and Promise.all is awaited
AvailabilityResolves ==
    /\ schedPc = "availability"
    /\ appointmentTasks' = StartedTasks(appointmentTasks)
    /\ schedPc' = "processing"
    /\ schedLog' = Append(schedLog, Event("availability:ok", 0))
                     \o SuggestCalls(appointmentTasks)
    /\ UNCHANGED notSchedVars

AvailabilityRejects ==
    /\ schedPc = "availability"
    /\ schedPc' = "rejected"
    /\ schedLog' = schedLog \o <<Event("availability:fail", 0), Event("reject", 0)>>
    /\ UNCHANGED <<appointmentTasks, notSchedVars>>

\* the suggestions of appointment i arrive
SuggestionResolves(i) ==
    /\ i \in DOMAIN appointmentTasks
    /\ appointmentTasks[i] = "suggesting"
    /\ appointmentTasks' = [appointmentTasks EXCEPT ![i] = "suggested"]
    /\ schedLog' = Append(schedLog, Event("suggest:ok", i))
    /\ UNCHANGED <<schedPc, notSchedVars>>

\* suggestAppointments rejects: so does the task
SuggestionRejects(i) ==
    /\ i \in DOMAIN appointmentTasks
    /\ appointmentTasks[i] = "suggesting"
    /\ appointmentTasks' = [appointmentTasks EXCEPT ![i] = "rejected"]
    /\ schedLog' = Append(schedLog, Event("suggest:fail", i))
    /\ UNCHANGED <<schedPc, notSchedVars>>

\* the task of appointment i resumes: checkConflicts runs and the task returns
RunConflictCheck(i) ==
    /\ i \in DOMAIN appointmentTasks
    /\ appointmentTasks[i] = "suggested"
    /\ \E suggestions \in SuggestionObjects :
          appointmentTasks' =
              [appointmentTasks EXCEPT
                 ![i] = IF CheckConflicts(AvailabilityObject(<<>>), suggestions).threw
                        THEN "rejected" ELSE "fulfilled"]
    /\ schedLog' = Append(schedLog, Event("check", i))
    /\ UNCHANGED <<schedPc, notSchedVars>>

\* Promise.all resolves: selectAppointments is awaited
PromiseAllResolves ==
    /\ schedPc = "processing"
    /\ AllFulfilled(appointmentTasks)
    /\ schedPc' = "selecting"
    /\ schedLog' = Append(schedLog, Event("select:call", 0))
    /\ UNCHANGED <<appointmentTasks, notSchedVars>>

\* Promise.all rejects: the catch block rethrows
PromiseAllRejects ==
    /\ schedPc = "processing"
    /\ SomeRejected(appointmentTasks)
    /\ schedPc' = "rejected"
    /\ schedLog' = Append(schedLog, Event("reject", 0))
    /\ UNCHANGED <<appointmentTasks, notSchedVars>>

\* the selection arrives: the results are built and returned
SelectorResolves ==
    /\ schedPc = "selecting"
    /\ schedPc' = "resolved"
    /\ schedLog' = schedLog \o <<Event("select:ok", 0), Event("resolve", 0)>>
    /\ UNCHANGED <<appointmentTasks, notSchedVars>>

SelectorRejects ==
    /\ schedPc = "selecting"
    /\ schedPc' = "rejected"
    /\ schedLog' = schedLog \o <<Event("select:fail", 0), Event("reject", 0)>>
    /\ UNCHANGED <<appointmentTasks, notSchedVars>>

NextSched ==
    \/ CallScheduleAppointments
    \/ ExtractionResolves
    \/ ExtractionRejects
    \/ AvailabilityResolves
    \/ AvailabilityRejects
    \/ \E i \in DOMAIN appointmentTasks : SuggestionResolves(i)
    \/ \E i \in DOMAIN appointmentTasks : SuggestionRejects(i)
    \/ \E i \in DOMAIN appointmentTasks : RunConflictCheck(i)
    \/ PromiseAllResolves
    \/ PromiseAllRejects
    \/ SelectorResolves
    \/ SelectorRejects

\* a settled promise's continuation always runs; a call to another service
\* may never return
ContinuationsRun ==
    /\ \A i \in 1..MaxAppointments : WF_vars(RunConflictCheck(i))
    /\ WF_vars(PromiseAllResolves)
    /\ WF_vars(PromiseAllRejects)

SpecSched == InitSched /\ [][NextSched]_vars /\ ContinuationsRun

---------------------------------------------------------------------------
(* Vocabulary of the properties *)

Called == calcReturned

IsInterval(s, e) == s < e

StrictlyOverlap(s1, e1, s2, e2) == s1 < e2 /\ e1 > s2

\* the unit cells [t, t+1) of the time line
Cells == 0..(MaxT - 1)

CoversCell(s, e, t) == s <= t /\ t < e

SingleWindow == Len(availabilitySlots) = 1

TheWindow == availabilitySlots[1]

\* indices of the bookings that strictly overlap window W
BookingsOverlapping(W) ==
    {i \in DOMAIN appointments :
        StrictlyOverlap(appointments[i].start, appointments[i].end,
                        W.startDateTime, W.endDateTime)}

\* the bookings that overlap W are intervals and pairwise non-overlapping
NonOverlappingBookings(W) ==
    \A i \in BookingsOverlapping(W) :
        /\ IsInterval(appointments[i].start, appointments[i].end)
        /\ \A j \in BookingsOverlapping(W) :
              i # j => ~StrictlyOverlap(appointments[i].start, appointments[i].end,
                                        appointments[j].start, appointments[j].end)

SumOfSlotDurations == SumOver(DOMAIN freeSlots, [i \in DOMAIN freeSlots |-> freeSlots[i].duration])

---------------------------------------------------------------------------
\* C1: for one window W and pairwise non-overlapping bookings that intersect
\* W, the returned free slots are exactly W minus the bookings: every cell of
\* W that no booking covers lies in exactly one slot, and every other cell
\* lies in no slot.
C1_ExactlyWindowMinusBookings ==
    (Called /\ SingleWindow /\ NonOverlappingBookings(TheWindow)) =>
        \A t \in Cells :
            Cardinality({i \in DOMAIN freeSlots :
                            CoversCell(freeSlots[i].startDateTime,
                                       freeSlots[i].endDateTime, t)})
            = IF /\ CoversCell(TheWindow.startDateTime, TheWindow.endDateTime, t)
                 /\ \A i \in BookingsOverlapping(TheWindow) :
                       ~CoversCell(appointments[i].start, appointments[i].end, t)
              THEN 1 ELSE 0

C1_Witness ==
    /\ Called /\ SingleWindow /\ NonOverlappingBookings(TheWindow)
    /\ IsInterval(TheWindow.startDateTime, TheWindow.endDateTime)
    /\ Cardinality(BookingsOverlapping(TheWindow)) = 2
    /\ appointments[1].start > appointments[2].start
    /\ Len(freeSlots) >= 1

\* C2: no returned free slot strictly overlaps any booking.
C2_NoSlotOverlapsBooking ==
    Called =>
        \A i \in DOMAIN freeSlots, j \in DOMAIN appointments :
            ~(/\ freeSlots[i].startDateTime < appointments[j].end
              /\ freeSlots[i].endDateTime > appointments[j].start)

C2_Witness ==
    /\ Called /\ SingleWindow
    /\ IsInterval(TheWindow.startDateTime, TheWindow.endDateTime)
    /\ Len(appointments) = 2
    /\ appointments[1].start <= appointments[2].start
    /\ appointments[2].end < appointments[1].end
    /\ IsInterval(appointments[2].start, appointments[2].end)
    /\ Len(freeSlots) = 1
    /\ freeSlots[1].startDateTime = appointments[1].end

\* C3: every returned slot lies inside the window whose locationId it carries,
\* and the slots carrying a window's locationId are the slots the calculator
\* returns for that window alone: windows are processed independently and
\* never merged.
C3_SlotInsideItsWindow ==
    Called =>
        /\ \A i \in DOMAIN freeSlots :
              /\ freeSlots[i].locationId \in DOMAIN availabilitySlots
              /\ LET W == availabilitySlots[freeSlots[i].locationId]
                 IN /\ W.startDateTime <= freeSlots[i].startDateTime
                    /\ freeSlots[i].endDateTime <= W.endDateTime
        /\ \A w \in DOMAIN availabilitySlots :
              SelectSeq(freeSlots, LAMBDA slot : slot.locationId = w)
              = CalculateFreeTimeSlots(<<availabilitySlots[w]>>, appointments)

C3_Witness ==
    /\ Called
    /\ Len(availabilitySlots) = 2
    /\ Len(appointments) = 1
    /\ IsInterval(appointments[1].start, appointments[1].end)
    /\ BookingsOverlapping(availabilitySlots[1]) = {1}
    /\ availabilitySlots[1].endDateTime = availabilitySlots[2].startDateTime
    /\ IsInterval(availabilitySlots[1].startDateTime, availabilitySlots[1].endDateTime)
    /\ IsInterval(availabilitySlots[2].startDateTime, availabilitySlots[2].endDateTime)
    /\ Len(freeSlots) = 2
    /\ freeSlots[1].locationId = 1 /\ freeSlots[2].locationId = 2
    /\ freeSlots[1].endDateTime = freeSlots[2].startDateTime

\* C4 as stated: for one window W and pairwise non-overlapping bookings, the
\* slot durations sum to the duration of W minus the total duration of the
\* bookings that overlap W.
C4_Original ==
    (Called /\ SingleWindow /\ NonOverlappingBookings(TheWindow)) =>
        SumOfSlotDurations
        = (TheWindow.endDateTime - TheWindow.startDateTime)
          - SumOver(BookingsOverlapping(TheWindow),
                    [i \in DOMAIN appointments |->
                        appointments[i].end - appointments[i].start])

\* C4 amended: for one window W and pairwise non-overlapping bookings, the
\* slot durations sum to the duration of W minus the total duration of the
\* parts of the overlapping bookings that lie inside W.
C4_ConservationClipped ==
    (Called /\ SingleWindow /\ NonOverlappingBookings(TheWindow)) =>
        SumOfSlotDurations
        = (TheWindow.endDateTime - TheWindow.startDateTime)
          - SumOver(BookingsOverlapping(TheWindow),
                    [i \in DOMAIN appointments |->
                        Min(appointments[i].end, TheWindow.endDateTime)
                        - Max(appointments[i].start, TheWindow.startDateTime)])

C4_Witness ==
    /\ Called /\ SingleWindow /\ NonOverlappingBookings(TheWindow)
    /\ IsInterval(TheWindow.startDateTime, TheWindow.endDateTime)
    /\ \E i \in BookingsOverlapping(TheWindow) :
          appointments[i].start < TheWindow.startDateTime
    /\ Len(freeSlots) >= 1
    /\ SumOfSlotDurations >= 1

\* C5: when every booking only touches the boundary of the single window W
\* (booking.end = W.start or booking.start = W.end), the result is exactly one
\* free slot, equal to W.
C5_TouchingBookingsLeaveWindow ==
    (/\ Called /\ SingleWindow
     /\ \A j \in DOMAIN appointments :
           \/ appointments[j].end = TheWindow.startDateTime
           \/ appointments[j].start = TheWindow.endDateTime) =>
        freeSlots = <<[startDateTime |-> TheWindow.startDateTime,
                       endDateTime |-> TheWindow.endDateTime,
                       duration |-> TheWindow.endDateTime - TheWindow.startDateTime,
                       locationId |-> TheWindow.locationId]>>

C5_Witness ==
    /\ Called /\ SingleWindow
    /\ Len(appointments) = 2
    /\ IsInterval(TheWindow.startDateTime, TheWindow.endDateTime)
    /\ appointments[1].end = TheWindow.startDateTime
    /\ IsInterval(appointments[1].start, appointments[1].end)
    /\ appointments[2].start = TheWindow.endDateTime
    /\ IsInterval(appointments[2].start, appointments[2].end)
    /\ Len(freeSlots) = 1

\* C6 as stated: every returned free slot has start < end, whatever the
\* windows and bookings.
C6_Original ==
    Called =>
        \A i \in DOMAIN freeSlots :
            freeSlots[i].startDateTime < freeSlots[i].endDateTime

\* C7: the returned list is sorted by slot start ascending across all
\* windows, whatever the order of the input windows and bookings.
C7_SortedByStart ==
    Called =>
        \A i, j \in DOMAIN freeSlots :
            i < j => freeSlots[i].startDateTime <= freeSlots[j].startDateTime

C7_Witness ==
    /\ Called
    /\ Len(availabilitySlots) = 2
    /\ availabilitySlots[1].startDateTime > availabilitySlots[2].startDateTime
    /\ \A w \in 1..2 : IsInterval(availabilitySlots[w].startDateTime,
                                   availabilitySlots[w].endDateTime)
    /\ Len(freeSlots) >= 2
    /\ freeSlots[1].locationId = 2
    /\ freeSlots[Len(freeSlots)].locationId = 1

Settled == pc \in {"resolved", "rejected"}

AllSucceeded == \A r \in Requests : requests[r].status = "success"

\* C9: the three requests are issued together; the free-slot computation runs
\* only when all three have succeeded; and when one of them failed, whatever
\* the order of completion, the call rejects, the computation has not run and
\* nothing is returned.
C9_AllOrNothing ==
    /\ pc # "idle" => \A r \in Requests : requests[r].status # "unsent"
    /\ calcReturned => AllSucceeded
    /\ pc = "resolved" => AllSucceeded
    /\ (Settled /\ ~AllSucceeded) =>
          /\ pc = "rejected"
          /\ ~calcReturned
          /\ availabilityOutput = <<>>
          /\ freeSlots = <<>>

C9_Witness ==
    /\ pc = "rejected"
    /\ requests["practitioner"].status = "success"
    /\ requests["practitioner"].data.kind = "object"
    /\ requests["schedule"].status = "error"
    /\ requests["availability"].status = "success"
    /\ requests["availability"].data.kind = "object"
    /\ requests["availability"].data.hasData
    /\ Len(requests["availability"].data.data) >= 1
    /\ ~calcReturned

\* the availability collection the computation needs: an object with `data`
AvailabilityCollectionPresent ==
    /\ requests["availability"].data.kind = "object"
    /\ requests["availability"].data.hasData

\* the booking collection the computation needs: an array
BookingCollectionPresent == requests["schedule"].data.kind = "array"

\* C10 as stated: when the availability collection or the booking collection
\* is missing or has not the expected shape, the computation aborts with an
\* error and returns nothing; free slots are never computed from a
\* substituted collection.
C10_Original ==
    (Settled /\ AllSucceeded
     /\ ~(AvailabilityCollectionPresent /\ BookingCollectionPresent)) =>
        /\ pc = "rejected"
        /\ ~calcReturned
        /\ availabilityOutput = <<>>

---------------------------------------------------------------------------
(* The result of calculateAvailability *)

Resolved == pc = "resolved"

TheOutput == availabilityOutput[1]

ThePractitioner == requests["practitioner"].data

\* the zones the practitioner record carries
ZonesOfRecord == {ThePractitioner.timezone, ThePractitioner.timeZone} \ {""}

\* C11 as stated: the timezone of a result comes from the practitioner
\* record (calculateAvailability takes no fallback from its caller); a record
\* that carries no timezone never yields a zone the core made up.
C11_Original ==
    Resolved => TheOutput.practitionerTimezone \in ZonesOfRecord

\* the availability windows and the bookings the upstream answered with
InputWindows == requests["availability"].data.data

InputBookings ==
    IF requests["schedule"].data.kind = "array"
    THEN requests["schedule"].data.items ELSE <<>>

SumOfDurationMs ==
    SumOver(DOMAIN TheOutput.freeTimeSlots,
            [i \in DOMAIN TheOutput.freeTimeSlots |->
                TheOutput.freeTimeSlots[i].durationMs])

---------------------------------------------------------------------------
(* The result of checkConflicts *)

Checked == checkReturned

ListsPresent ==
    /\ ~practitionerAvailability.isNull /\ practitionerAvailability.hasList
    /\ ~suggestedAppointments.isNull /\ suggestedAppointments.hasList

SuppliedCandidates ==
    IF suggestedAppointments.hasList
    THEN suggestedAppointments.suggestedAppointments ELSE <<>>

SuppliedSlots ==
    IF practitionerAvailability.hasList
    THEN practitionerAvailability.freeTimeSlots ELSE <<>>

ValidReported == conflictResults.validAppointments
ConflictedReported == conflictResults.conflictedAppointments

\* the entries of a report that carry the fields of candidate c
EntriesFor(report, c) ==
    {i \in DOMAIN report :
        \A f \in DOMAIN c : f \in DOMAIN report[i] /\ report[i][f] = c[f]}

\* the candidates' identifiers, in the order of a report
ServicesOf(report) == [i \in DOMAIN report |-> report[i].service]

IsSubsequence(sub, seq) ==
    \E pos \in [DOMAIN sub -> DOMAIN seq] :
        /\ \A i \in DOMAIN sub : sub[i] = seq[pos[i]]
        /\ \A i, j \in DOMAIN sub : i < j => pos[i] < pos[j]

C20_Original ==
    (Checked /\ ~ListsPresent) =>
        /\ ~conflictResults.threw
        /\ Len(conflictResults.summary.validationErrors) >= 1
        /\ ValidReported = <<>>
        /\ \A k \in DOMAIN SuppliedCandidates :
              Cardinality(EntriesFor(ConflictedReported, SuppliedCandidates[k])) = 1

\* the entries of a report for the candidate with a given identifier
ReportOf(report, service) == SelectSeq(report, LAMBDA e : e.service = service)

\* what checkConflicts reports when a candidate is the only one supplied
CheckedAlone(c) == CheckConflicts(practitionerAvailability, SuggestedObject(<<c>>))

\* C21: the entry of a candidate (valid or conflicted, its matched slot and
\* its details) is the entry the same free-slot list gives that candidate
\* when it is supplied alone, whatever the other candidates of the call are,
\* and every candidate after an invalid one is still reported.
C21_CandidatesIsolated ==
    (Checked /\ ListsPresent) =>
        \A k \in DOMAIN SuppliedCandidates :
            LET c == SuppliedCandidates[k]
            IN /\ ReportOf(ValidReported, c.service) = CheckedAlone(c).validAppointments
               /\ ReportOf(ConflictedReported, c.service)
                     = CheckedAlone(c).conflictedAppointments
               /\ Len(ReportOf(ValidReported, c.service))
                  + Len(ReportOf(ConflictedReported, c.service)) = 1

\* an unparseable candidate followed by a candidate that some slot contains
C21_Witness ==
    /\ Checked /\ ListsPresent
    /\ Len(SuppliedCandidates) = 2
    /\ SuppliedCandidates[1].start = NaN
    /\ Len(ConflictedReported) = 1
    /\ ConflictedReported[1].service = 1
    /\ ConflictedReported[1].conflicts = <<InvalidFormat>>
    /\ Len(ValidReported) = 1
    /\ ValidReported[1].service = 2
    /\ ValidReported[1].matchedSlot \in {SuppliedSlots[j] : j \in DOMAIN SuppliedSlots}

\* the entries of the result in the order the result object holds them:
\* validAppointments, then conflictedAppointments
ResultSequence == ValidReported \o ConflictedReported

\* C22 as stated: the result lists the candidates in the order they were
\* supplied, whatever mix of valid and conflicted candidates it contains.
C22_Original ==
    (Checked /\ ListsPresent) =>
        ServicesOf(ResultSequence) = ServicesOf(SuppliedCandidates)

\* the fields the checker adds to a valid and to a conflicted entry
ValidAnnotations == {"matchedSlot", "timeWithinSlot"}
ConflictAnnotations == {"conflicts"}

CarriesCandidate(entry, c) ==
    \A f \in DOMAIN c : f \in DOMAIN entry /\ entry[f] = c[f]

\* C23: every entry of the result carries every field of its candidate with
\* the candidate's value, and has no other field than the annotations of its
\* list: matchedSlot and timeWithinSlot when valid, conflicts when conflicted.
C23_CandidateFieldsKept ==
    (Checked /\ ListsPresent) =>
        /\ \A i \in DOMAIN ValidReported :
              \E k \in DOMAIN SuppliedCandidates :
                  /\ CarriesCandidate(ValidReported[i], SuppliedCandidates[k])
                  /\ (DOMAIN ValidReported[i]) \ (DOMAIN SuppliedCandidates[k])
                        = ValidAnnotations
        /\ \A i \in DOMAIN ConflictedReported :
              \E k \in DOMAIN SuppliedCandidates :
                  /\ CarriesCandidate(ConflictedReported[i], SuppliedCandidates[k])
                  /\ (DOMAIN ConflictedReported[i]) \ (DOMAIN SuppliedCandidates[k])
                        = ConflictAnnotations
        /\ Len(ValidReported) + Len(ConflictedReported) = Len(SuppliedCandidates)

\* a valid and a conflicted entry, each with its candidate's interval,
\* location and identifier
C23_Witness ==
    /\ Checked /\ ListsPresent
    /\ Len(SuppliedCandidates) = 2
    /\ Len(ValidReported) = 1
    /\ Len(ConflictedReported) = 1
    /\ ValidReported[1].service = 1
    /\ ValidReported[1].locationId = 1
    /\ ConflictedReported[1].service = 2
    /\ ConflictedReported[1].start = SuppliedCandidates[2].start
    /\ ConflictedReported[1].locationId = SuppliedCandidates[2].locationId
    /\ SuppliedCandidates[2].start # NaN

---------------------------------------------------------------------------
(* The result of checkSingleAppointment, read from the report *)

Single == Checked /\ ListsPresent /\ Len(SuppliedCandidates) = 1

TheCandidate == SuppliedCandidates[1]

IsValidReported == Len(ValidReported) = 1
IsConflictedReported == Len(ConflictedReported) = 1
TheConflicts == ConflictedReported[1].conflicts

ValidInterval(c) == c.start \in Nat /\ c.end \in Nat /\ c.start < c.end

ContainsInTime(slot, c) ==
    c.start >= slot.startDateTime /\ c.end <= slot.endDateTime

LocationsAgree(slot, c) ==
    c.locationId = 0 \/ slot.locationId = 0 \/ c.locationId = slot.locationId

SlotMatches(slot, c) == ContainsInTime(slot, c) /\ LocationsAgree(slot, c)

StrictOverlapWith(slot, c) ==
    c.start < slot.endDateTime /\ c.end > slot.startDateTime

MatchingSlots ==
    {j \in DOMAIN SuppliedSlots : SlotMatches(SuppliedSlots[j], TheCandidate)}

FirstOf(S) == CHOOSE j \in S : \A k \in S : j <= k

IsPartialOverlap(d) == "type" \in DOMAIN d /\ d.type = "partial_overlap"
IsReasonText(d) == "reason" \in DOMAIN d

GenericText == "No available time slot found for this appointment"
IsGeneric(d) == IsReasonText(d) /\ d.reason = GenericText

\* C14: a candidate with a valid interval is valid exactly when some slot
\* contains it, boundaries included, at an agreeing or unset location, and
\* its matchedSlot is the first such slot of the list.
C14_ValidIffContained ==
    (Single /\ ValidInterval(TheCandidate)) =>
        /\ IsValidReported <=> MatchingSlots # {}
        /\ IsValidReported <=> ~IsConflictedReported
        /\ IsValidReported =>
              /\ ValidReported[1].matchedSlot = SuppliedSlots[FirstOf(MatchingSlots)]
              /\ ValidReported[1].timeWithinSlot

\* the first slot contains the candidate at another location, the second is
\* the candidate's own interval and is the match
C14_Witness ==
    /\ Single /\ ValidInterval(TheCandidate)
    /\ Len(SuppliedSlots) = 2
    /\ ContainsInTime(SuppliedSlots[1], TheCandidate)
    /\ ~LocationsAgree(SuppliedSlots[1], TheCandidate)
    /\ SuppliedSlots[2].startDateTime = TheCandidate.start
    /\ SuppliedSlots[2].endDateTime = TheCandidate.end
    /\ IsValidReported
    /\ ValidReported[1].matchedSlot = SuppliedSlots[2]

\* C15: a candidate whose start or end does not parse, or whose start is
\* not before its end, is conflicted with exactly one detail, a reason text,
\* whatever the slots are: no slot is matched and no partial_overlap given.
C15_InvalidIntervalConflicted ==
    (Single /\ ~ValidInterval(TheCandidate)) =>
        /\ ~IsValidReported
        /\ IsConflictedReported
        /\ Len(TheConflicts) = 1
        /\ IsReasonText(TheConflicts[1])
        /\ ~IsGeneric(TheConflicts[1])

\* a zero-length candidate inside a slot of its location
C15_Witness ==
    /\ Single
    /\ TheCandidate.start \in Nat
    /\ TheCandidate.start = TheCandidate.end
    /\ MatchingSlots # {}
    /\ IsConflictedReported
    /\ Len(TheConflicts) = 1

\* the partial_overlap details among the conflicts, in their order
PartialOverlapDetails == SelectSeq(TheConflicts, IsPartialOverlap)

Later(a, b) == IF a >= b THEN a ELSE b
Earlier(a, b) == IF a <= b THEN a ELSE b

\* the detail the claims describe for a slot
DetailFor(slot, c) ==
    [type |-> "partial_overlap",
     slotStart |-> slot.startDateTime,
     slotEnd |-> slot.endDateTime,
     overlapStart |-> Later(c.start, slot.startDateTime),
     overlapEnd |-> Earlier(c.end, slot.endDateTime)]

\* the details for the slots of the list that satisfy Wanted, in list order
DetailsWhere(Wanted(_)) ==
    LET picked == SelectSeq([j \in DOMAIN SuppliedSlots |-> j],
                            LAMBDA j : Wanted(SuppliedSlots[j]))
    IN [n \in DOMAIN picked |-> DetailFor(SuppliedSlots[picked[n]], TheCandidate)]

Overlaps(slot) == StrictOverlapWith(slot, TheCandidate)

OverlapsWithoutContaining(slot) ==
    StrictOverlapWith(slot, TheCandidate) /\ ~ContainsInTime(slot, TheCandidate)

Unmatched == Single /\ ValidInterval(TheCandidate) /\ MatchingSlots = {}

\* C16 as stated: when no slot matches a valid-interval candidate, the
\* conflicts hold exactly one partial_overlap detail for each slot that
\* strictly overlaps the candidate, with the overlap from the later start to
\* the earlier end.
C16_Original ==
    Unmatched =>
        /\ IsConflictedReported
        /\ PartialOverlapDetails = DetailsWhere(Overlaps)

\* C16 amended: the details are those of the slots that strictly overlap
\* the candidate without containing it; a slot that contains the candidate
\* and was passed over for its location gets none.
C16_DetailPerPartlyOverlappingSlot ==
    Unmatched =>
        /\ IsConflictedReported
        /\ PartialOverlapDetails = DetailsWhere(OverlapsWithoutContaining)

\* a slot that contains the candidate at another location, then a slot that
\* begins before the candidate and ends inside it: one detail, for the second
\* slot, from the candidate's start to the slot's end
C16_Witness ==
    /\ Unmatched
    /\ Len(SuppliedSlots) = 2
    /\ ContainsInTime(SuppliedSlots[1], TheCandidate)
    /\ OverlapsWithoutContaining(SuppliedSlots[2])
    /\ SuppliedSlots[2].startDateTime < SuppliedSlots[2].endDateTime
    /\ IsConflictedReported
    /\ Len(PartialOverlapDetails) = 1
    /\ PartialOverlapDetails[1].slotStart < PartialOverlapDetails[1].overlapStart
    /\ PartialOverlapDetails[1].overlapStart < PartialOverlapDetails[1].overlapEnd
    /\ PartialOverlapDetails[1].overlapEnd < TheCandidate.end

\* two slots that meet at an instant inside the candidate
SpansBoundary(c) ==
    \E i, j \in DOMAIN SuppliedSlots :
        /\ SuppliedSlots[i].startDateTime < SuppliedSlots[i].endDateTime
        /\ SuppliedSlots[j].startDateTime < SuppliedSlots[j].endDateTime
        /\ SuppliedSlots[i].endDateTime = SuppliedSlots[j].startDateTime
        /\ c.start < SuppliedSlots[i].endDateTime
        /\ SuppliedSlots[i].endDateTime < c.end

C17_SpanningIsConflicted ==
    (Unmatched /\ SpansBoundary(TheCandidate)) =>
        /\ IsConflictedReported
        /\ Len(PartialOverlapDetails) >= 1

\* C17 as stated: a candidate that spans the boundary between two adjacent
\* slots and fits in no slot is conflicted with at least one partial_overlap
\* detail, and every partial_overlap detail has overlapStart < overlapEnd.
C17_Original ==
    /\ C17_SpanningIsConflicted
    /\ (Single /\ IsConflictedReported) =>
          \A n \in DOMAIN PartialOverlapDetails :
              PartialOverlapDetails[n].overlapStart < PartialOverlapDetails[n].overlapEnd

NoSlotOverlaps ==
    \A j \in DOMAIN SuppliedSlots : ~StrictOverlapWith(SuppliedSlots[j], TheCandidate)

\* C18: a valid-interval candidate that no slot matches and no slot
\* strictly overlaps (it may touch a slot's endpoint, the list may be empty)
\* is conflicted with the generic text as its only detail; and the generic
\* text is never given next to another detail.
C18_GenericTextAlone ==
    /\ (Unmatched /\ NoSlotOverlaps) =>
          /\ IsConflictedReported
          /\ TheConflicts = <<[reason |-> GenericText]>>
    /\ (Single /\ IsConflictedReported) =>
          ((\E n \in DOMAIN TheConflicts : IsGeneric(TheConflicts[n]))
              => Len(TheConflicts) = 1)

\* a candidate that starts where the only slot ends
C18_Witness ==
    /\ Unmatched
    /\ Len(SuppliedSlots) = 1
    /\ SuppliedSlots[1].startDateTime < SuppliedSlots[1].endDateTime
    /\ SuppliedSlots[1].endDateTime = TheCandidate.start
    /\ IsConflictedReported
    /\ TheConflicts = <<[reason |-> GenericText]>>

\* some slot contains the candidate and both locations are set and differ
InsideSlotOfOtherLocation ==
    \E j \in DOMAIN SuppliedSlots :
        /\ ContainsInTime(SuppliedSlots[j], TheCandidate)
        /\ TheCandidate.locationId # 0
        /\ SuppliedSlots[j].locationId # 0
        /\ TheCandidate.locationId # SuppliedSlots[j].locationId

HasGenericText == \E n \in DOMAIN TheConflicts : IsGeneric(TheConflicts[n])

\* C19 as stated: a candidate inside a slot of another location that fits
\* no other slot is conflicted and its details contain the generic text.
C19_Original ==
    (Unmatched /\ InsideSlotOfOtherLocation) =>
        /\ IsConflictedReported
        /\ HasGenericText

\* C19 amended: ... that fits no other slot, and that no slot overlaps
\* without containing it, is conflicted and its details contain the generic
\* text.
C19_OtherLocationGivesGenericText ==
    (/\ Unmatched
     /\ InsideSlotOfOtherLocation
     /\ \A j \in DOMAIN SuppliedSlots : ~OverlapsWithoutContaining(SuppliedSlots[j])) =>
        /\ IsConflictedReported
        /\ HasGenericText

\* the candidate lies inside both slots, each at another location
C19_Witness ==
    /\ Unmatched
    /\ Len(SuppliedSlots) = 2
    /\ \A j \in DOMAIN SuppliedSlots :
          /\ ContainsInTime(SuppliedSlots[j], TheCandidate)
          /\ SuppliedSlots[j].locationId = 2
    /\ TheCandidate.locationId = 1
    /\ IsConflictedReported
    /\ HasGenericText

\* some slot before the first matching one overlaps the candidate without
\* containing it
OverlapBeforeMatch ==
    /\ Single /\ ValidInterval(TheCandidate)
    /\ MatchingSlots # {}
    /\ \E j \in DOMAIN SuppliedSlots :
          /\ j < FirstOf(MatchingSlots)
          /\ OverlapsWithoutContaining(SuppliedSlots[j])

\* C30: a candidate that strictly overlaps earlier slots of the list without
\* fitting in them and is contained in a later slot whose location agrees is
\* reported valid; its entry carries that later slot as matchedSlot and none
\* of the partial_overlap details of the earlier slots.
C30_LaterMatchDropsOverlaps ==
    OverlapBeforeMatch =>
        /\ IsValidReported
        /\ ConflictedReported = <<>>
        /\ ValidReported[1].matchedSlot = SuppliedSlots[FirstOf(MatchingSlots)]
        /\ ValidReported[1].timeWithinSlot
        /\ "conflicts" \notin DOMAIN ValidReported[1]
        /\ conflictResults.summary.totalConflicted = 0

\* the first slot covers only the start of the candidate, the second holds it
C30_Witness ==
    /\ OverlapBeforeMatch
    /\ Len(SuppliedSlots) = 2
    /\ SuppliedSlots[1].startDateTime <= TheCandidate.start
    /\ SuppliedSlots[1].endDateTime < TheCandidate.end
    /\ IsValidReported
    /\ ValidReported[1].matchedSlot = SuppliedSlots[2]
    /\ SuppliedSlots[2] # SuppliedSlots[1]

---------------------------------------------------------------------------
(* The sweep over bookings that may overlap one another *)

AllBookingsAreIntervals ==
    \A j \in DOMAIN appointments :
        IsInterval(appointments[j].start, appointments[j].end)

\* C28: for one window W and bookings that each have start < end, overlapping
\* and nested ones included, the returned slots are ascending by start,
\* pairwise disjoint and non-touching (each ends before the next starts), and
\* together they cover exactly the cells of W that no booking covers.
C28_SweepOfAnyBookings ==
    (Called /\ SingleWindow /\ AllBookingsAreIntervals) =>
        /\ \A i, j \in DOMAIN freeSlots :
              i < j => /\ freeSlots[i].startDateTime < freeSlots[i].endDateTime
                       /\ freeSlots[i].endDateTime < freeSlots[j].startDateTime
                       /\ freeSlots[j].startDateTime < freeSlots[j].endDateTime
        /\ \A t \in Cells :
              (\E i \in DOMAIN freeSlots :
                  CoversCell(freeSlots[i].startDateTime, freeSlots[i].endDateTime, t))
              <=> /\ CoversCell(TheWindow.startDateTime, TheWindow.endDateTime, t)
                  /\ \A j \in DOMAIN appointments :
                        ~CoversCell(appointments[j].start, appointments[j].end, t)

\* two bookings that overlap each other, given latest first, after free time
\* at the start of the window
C28_Witness ==
    /\ Called /\ SingleWindow /\ AllBookingsAreIntervals
    /\ Len(appointments) = 2
    /\ appointments[1].start > appointments[2].start
    /\ StrictlyOverlap(appointments[1].start, appointments[1].end,
                       appointments[2].start, appointments[2].end)
    /\ Len(freeSlots) >= 1
    /\ freeSlots[1].startDateTime = TheWindow.startDateTime
    /\ freeSlots[1].endDateTime = appointments[2].start

---------------------------------------------------------------------------
(* The order of the stages of scheduleAppointments, read from the log *)

Positions(name, index) ==
    {k \in DOMAIN schedLog : schedLog[k] = Event(name, index)}

Happened(name, index) == Positions(name, index) # {}

\* every occurrence of the second event comes after one of the first
Precedes(name1, index1, name2, index2) ==
    \A k \in Positions(name2, index2) :
        \E j \in Positions(name1, index1) : j < k

\* extraction, availability or some appointment's suggestions failed
FailedBeforeSelection ==
    \/ Happened("extract:fail", 0)
    \/ Happened("availability:fail", 0)
    \/ \E i \in DOMAIN appointmentTasks :
          Happened("suggest:fail", i) \/ appointmentTasks[i] = "rejected"

SomethingFailed == FailedBeforeSelection \/ Happened("select:fail", 0)

StagesInOrder ==
    /\ Precedes("extract:ok", 0, "availability:call", 0)
    /\ \A i \in DOMAIN appointmentTasks :
          /\ Precedes("suggest:ok", i, "check", i)
          /\ Precedes("suggest:ok", i, "select:call", 0)
          /\ Precedes("check", i, "select:call", 0)
    /\ FailedBeforeSelection => ~Happened("select:call", 0)
    /\ SomethingFailed => (schedPc # "resolved" /\ ~Happened("resolve", 0))

\* C29: availability is requested only after extraction succeeded; the
\* conflict check of an appointment runs only after its suggestions returned;
\* the selector is invoked only after the suggestions and the conflict check
\* of every appointment, whatever their interleaving; when extraction,
\* availability or an appointment fails the selector is never invoked, and
\* after any failure the call never returns a result and ends rejected.
C29_StagesInOrder ==
    /\ []StagesInOrder
    /\ SomethingFailed ~> (schedPc = "rejected")

\* three appointments whose suggestions arrive last to first, each checked
\* before the next arrives, then the selection and the result
C29_Witness ==
    /\ schedPc = "resolved"
    /\ Len(appointmentTasks) = 3
    /\ Precedes("check", 3, "suggest:ok", 2)
    /\ Precedes("check", 2, "suggest:ok", 1)
    /\ Happened("select:call", 0)
    /\ Happened("resolve", 0)

---------------------------------------------------------------------------
(* The results of the timezone utilities *)

TimeOfDayReturned == utilCall.fn = "getTimeOfDay" /\ utilCall.returned
RangeReturned == utilCall.fn = "getTimeOfDayRange" /\ utilCall.returned
AbbrReturned == utilCall.fn = "getTimezoneAbbr" /\ utilCall.returned

\* the wall clock of an instant in a zone, in minutes after local midnight
LocalMinuteOfDay(utcDate, timezone) ==
    (utcDate + UtcOffsetMinutes[timezone]) % (24 * 60)

HourOf(minuteOfDay) == minuteOfDay \div 60

Bucket(hour) ==
    CASE hour \in 0..11 -> "morning"
      [] hour \in 12..16 -> "afternoon"
      [] hour \in 17..23 -> "evening"

\* C24: getTimeOfDay gives the bucket of the instant's local hour in the given
\* zone: 'morning' for hours 0..11, 'afternoon' for 12..16, 'evening' for
\* 17..23.
C24_BucketOfLocalHour ==
    TimeOfDayReturned =>
        LET hour == HourOf(LocalMinuteOfDay(utilCall.utcDate, utilCall.timezone))
        IN /\ hour \in 0..23
           /\ hour \in 0..11 => utilCall.result = "morning"
           /\ hour \in 12..16 => utilCall.result = "afternoon"
           /\ hour \in 17..23 => utilCall.result = "evening"

\* local 16:59 in Melbourne is afternoon, and the same instant is afternoon
\* in Perth one minute later while Melbourne has reached the evening
C24_Witness ==
    /\ TimeOfDayReturned
    /\ utilCall.timezone = "Australia/Melbourne"
    /\ LocalMinuteOfDay(utilCall.utcDate, utilCall.timezone) = 16 * 60 + 59
    /\ utilCall.result = "afternoon"
    /\ GetTimeOfDay(utilCall.utcDate + 1, "Australia/Melbourne") = "evening"
    /\ GetTimeOfDay(utilCall.utcDate + 1, "Australia/Perth") = "afternoon"

StartHour == HourOf(LocalMinuteOfDay(utilCall.startUTC, utilCall.timezone))
EndHour == HourOf(LocalMinuteOfDay(utilCall.endUTC, utilCall.timezone))

\* the buckets from the first to the last, joined with hyphens
Spanned(first, last) ==
    CASE first = "morning" /\ last = "afternoon" -> "morning-afternoon"
      [] first = "afternoon" /\ last = "evening" -> "afternoon-evening"
      [] first = "morning" /\ last = "evening" -> "morning-afternoon-evening"

\* C25: getTimeOfDayRange gives the one bucket when the local hours of both
\* endpoints fall in the same bucket; when they fall in different buckets and
\* the end hour is not less than the start hour it gives the buckets from the
\* start's to the end's joined with hyphens, so an end at local 17:00 counts
\* the evening.
C25_SingleOrJoinedBuckets ==
    RangeReturned =>
        /\ Bucket(StartHour) = Bucket(EndHour) => utilCall.result = Bucket(StartHour)
        /\ (Bucket(StartHour) # Bucket(EndHour) /\ EndHour >= StartHour) =>
              /\ utilCall.result = Spanned(Bucket(StartHour), Bucket(EndHour))
              /\ utilCall.result \in {"morning-afternoon", "afternoon-evening",
                                      "morning-afternoon-evening"}

\* an interval from the local afternoon that ends at local 17:00
C25_Witness ==
    /\ RangeReturned
    /\ StartHour \in 12..16
    /\ LocalMinuteOfDay(utilCall.endUTC, utilCall.timezone) = 17 * 60
    /\ utilCall.startUTC < utilCall.endUTC
    /\ utilCall.result = "afternoon-evening"

\* C26: when the local end hour is less than the local start hour,
\* getTimeOfDayRange gives the bucket of the start instant alone.
C26_CrossDayGivesStartBucket ==
    (RangeReturned /\ EndHour < StartHour) =>
        utilCall.result = Bucket(StartHour)

\* local 22:00 to 02:00 of the next day
C26_Witness ==
    /\ RangeReturned
    /\ utilCall.startUTC < utilCall.endUTC
    /\ StartHour = 22
    /\ EndHour = 2
    /\ utilCall.result = "evening"

TheTimezone == utilCall.timezone

IsKnownTimezone ==
    TheTimezone.kind = "string" /\ TextOf(TheTimezone) \in DOMAIN TimezoneMap

\* two or more segments, none of them empty
IsWellFormedTimezone ==
    /\ TheTimezone.kind = "string"
    /\ Len(TheTimezone.segments) >= 2
    /\ \A i \in DOMAIN TheTimezone.segments : TheTimezone.segments[i] # ""

FinalSegment == TheTimezone.segments[Len(TheTimezone.segments)]

\* C27 as stated: getTimezoneAbbr gives the table entry of a known
\* identifier, the final path segment of an unmatched well-formed identifier
\* of any number of segments, the identifier itself when it has no '/', and
\* the empty string for empty, null or undefined input.
C27_Original ==
    AbbrReturned =>
        /\ IsKnownTimezone => utilCall.result = TimezoneMap[TextOf(TheTimezone)]
        /\ (IsWellFormedTimezone /\ ~IsKnownTimezone) => utilCall.result = FinalSegment
        /\ (TheTimezone.kind = "string" /\ Len(TheTimezone.segments) = 1) =>
              utilCall.result = TextOf(TheTimezone)
        /\ TheTimezone.kind \in {"null", "undefined"} => utilCall.result = ""

====
